---- MODULE Spec2Model ----
(***************************************************************************)
(* A model of the traveling-salesman genetic-algorithm engine:             *)
(*   src/src/map.rs    Point, Map, Path, RemovalIndex, RandomKeyPath,      *)
(*                     SwapPath                                            *)
(*   src/src/ga.rs     slice_crossover, KPoint, Uniform,                   *)
(*                     RouletteWheelSelection::evolve                      *)
(*   src/src/solve.rs  brute_force                                         *)
(*                                                                         *)
(* Rust indices are 0-based; TLA+ sequences are 1-based, so At(s, i) reads *)
(* s[i] of the source.  f32 values are modelled by integers: every map the *)
(* model uses has integral pairwise distances, and every random f32 draw   *)
(* is a rational k / RandDen, so all arithmetic of the code is exact.      *)
(* A panic (index out of range, failed assertion, checked arithmetic       *)
(* overflow) is an explicit "abort" outcome.                               *)
(***************************************************************************)
EXTENDS Integers, Sequences, FiniteSets, TLC

VARIABLES
  \* ---- Path: one genome evaluated and reordered over one map
  pPc,        \* "init" | "evaluated" | "reordered"
  pMap,       \* the Map handed to reorder (a copy m' of pMap0)
  pMap0,      \* the Map m handed to evaluate
  pGenome,    \* the genome g
  pLoss,      \* outcome of g.evaluate(m): [ok, value]
  pReorderOk  \* whether g.reorder(m') returned (FALSE: it panicked)

pathVars == <<pPc, pMap, pMap0, pGenome, pLoss, pReorderOk>>

VARIABLES
  \* ---- Chromosome: two genomes of one map under crossover and mutation
  cMap,        \* the Map both genomes were built for
  cFirst,      \* self of crossover
  cSecond,     \* other of crossover
  cSnapFirst,  \* cFirst before the first of two successive crossover calls
  cSnapSecond, \* cSecond before it
  cBounds,     \* <<start, end>> of the last crossover call
  cRepeat,     \* successive crossover calls with cBounds since the snapshot
  cMutated,    \* whether point_mutation has been called since `new`
  cAborted     \* whether a call panicked

chromVars == <<cMap, cFirst, cSecond, cSnapFirst, cSnapSecond, cBounds,
               cRepeat, cMutated, cAborted>>

VARIABLES
  \* ---- brute_force (src/src/solve.rs)
  bPc,            \* "call" | "loop" | "done" | "abort"
  bMap,           \* map
  current,        \* the permutation being scored
  solution,       \* the best permutation so far
  shortest_dist,  \* its path length
  increase,       \* the loop's position variable
  counter,        \* the number of counter.increment() calls
  bVisited,       \* every value current has had when it was scored
  bFresh          \* FALSE once a scored value of current had been scored before

bruteVars == <<bPc, bMap, current, solution, shortest_dist, increase, counter,
               bVisited, bFresh>>

VARIABLES
  \* ---- Recombinator: a strategy is constructed and recombines two genomes
  rPc,          \* "new" | "ready" | "done" | "abort_new" | "abort_recombine"
  rCtor,        \* the constructor called: [name, arg]
  recombinator, \* the strategy: [kind, count, weight]
  rFirst,       \* first of recombine
  rSecond,      \* second of recombine
  rFirst0,      \* first before recombine
  rSecond0,     \* second before recombine
  rDraws,       \* the number of random draws recombine consumed
  rCalls        \* the <<start, end>> of the crossover calls recombine issued

recVars == <<rPc, rCtor, recombinator, rFirst, rSecond, rFirst0, rSecond0,
             rDraws, rCalls>>

VARIABLES
  \* ---- RandomKeyPath::fix on one genome over one map
  fPc,    \* "init" | "fixed"
  fMap,   \* map
  fKey0,  \* self.key before fix
  fKey    \* self.key

fixVars == <<fPc, fMap, fKey0, fKey>>

VARIABLES
  \* ---- RouletteWheelSelection::evolve (src/src/ga.rs)
  ePc,                    \* "idle" | "select" | "recombine" | "mutate" |
                          \* "trim" | "returned" | "abort"
  population,             \* population
  fixArg,                 \* the parameter `fix`
  eElitist,               \* whether settings.elitist_percent > 0.0
  popSize,                \* n
  losses,                 \* losses, as numerators over loss_sum
  loss_sum,               \* loss_sum
  min_loss,               \* min_loss
  offspring_count,        \* offspring_count
  target_offspring_count, \* target_offspring_count
  selections,             \* selections
  firstClone,             \* first
  secondClone,            \* second
  eReturn,                \* the value the last call returned
  ePop0,                  \* population when evolve was called
  ePre,                   \* population when the offspring loop was entered
  eOffspring,             \* the clones pushed, in the order they were pushed
  eCloneLosses            \* the losses of all clones evaluated in the loop

evolveVars == <<ePc, population, fixArg, eElitist, popSize, losses, loss_sum,
                min_loss, offspring_count, target_offspring_count, selections,
                firstClone, secondClone, eReturn, ePop0, ePre, eOffspring, eCloneLosses>>

vars == <<pathVars, chromVars, bruteVars, recVars, fixVars, evolveVars>>

\* the variables each specification leaves alone
notPath == <<chromVars, bruteVars, recVars, fixVars, evolveVars>>
notChrom == <<pathVars, bruteVars, recVars, fixVars, evolveVars>>
notBrute == <<pathVars, chromVars, recVars, fixVars, evolveVars>>
notRec == <<pathVars, chromVars, bruteVars, fixVars, evolveVars>>
notFix == <<pathVars, chromVars, bruteVars, recVars, evolveVars>>
notEvolve == <<pathVars, chromVars, bruteVars, recVars, fixVars>>

-----------------------------------------------------------------------------
(* Bounds of the model *)

\* largest map of the Path specification
MaxPathCities == 4
\* largest map of the Chromosome specification
MaxChromCities == 3
\* number of distinct key values a random key can take
MaxKey == 2
\* largest swap_count of a SwapPath
MaxSwaps == 2
\* largest map of the brute_force specification
MaxBruteCities == 5
\* largest map of the fix specification
MaxFixCities == 6
\* number of distinct key values in the fix specification
MaxFixKey == 4
\* largest population handed to evolve
MaxPop == 2
\* replace_percent and elitist_percent are k / RatioDen for a k in 0..RatioDen
RatioDen == 2
\* a random f32 draw is k / RandDen for a k in 0..RandDen-1
RandDen == 4
\* largest count handed to KPoint::new
MaxCount == 3
\* longest genome handed to recombine
MaxRecLen == 3
\* number of map layouts
NumLayouts == 3

-----------------------------------------------------------------------------
(* Sequences as Rust slices and Vecs *)

At(s, i) == s[i + 1]

SwapAt(s, i, j) == [s EXCEPT ![i + 1] = s[j + 1], ![j + 1] = s[i + 1]]

\* Vec::remove(i): the elements after i shift left
RemoveAt(s, i) == SubSeq(s, 1, i) \o SubSeq(s, i + 2, Len(s))

RECURSIVE SumSeq(_)
SumSeq(s) == IF s = <<>> THEN 0 ELSE Head(s) + SumSeq(Tail(s))

Min2(a, b) == IF a < b THEN a ELSE b
Max2(a, b) == IF a > b THEN a ELSE b

-----------------------------------------------------------------------------
(* Point and Map (src/src/map.rs) *)

Isqrt(s) == CHOOSE r \in 0..s : r * r <= s /\ (r + 1) * (r + 1) > s

\* Point::dist_sq
dist_sq(a, b) == (a[1] - b[1]) * (a[1] - b[1]) + (a[2] - b[2]) * (a[2] - b[2])

\* Point::dist: f32::hypot, exact on the maps below
dist(a, b) == Isqrt(dist_sq(a, b))

\* The corners of a 3 x 4 rectangle, in tour order (sides 3 and 4, diagonal 5)
Corner == << <<0, 0>>, <<3, 0>>, <<3, 4>>, <<0, 4>> >>

\* City i (0-based) of layout l: 1 walks the rectangle's corners in tour
\* order, 2 walks them in the crossed order 0,2,1,3, the others scatter the
\* cities over the points 0..6 of a line.
LayoutPoint(l, i) ==
  CASE l = 1 -> Corner[(i % 4) + 1]
    [] l = 2 -> Corner[At(<<0, 2, 1, 3>>, i % 4) + 1]
    [] OTHER -> <<(l * i) % 7, 0>>

\* Map::from_points
MapOf(l, n) == [i \in 1..n |-> LayoutPoint(l, i - 1)]

Maps(n) == {MapOf(l, n) : l \in 1..NumLayouts}

\* Map::swap: split_at_mut(second), then first_mut[first] <-> second_mut[0]
MapSwap(points, first, second) ==
  IF second > Len(points) THEN [ok |-> FALSE, points |-> points]
  ELSE IF first >= second THEN [ok |-> FALSE, points |-> points]
  ELSE IF second >= Len(points) THEN [ok |-> FALSE, points |-> points]
  ELSE [ok |-> TRUE, points |-> SwapAt(points, first, second)]

\* sum of the consecutive distances of a sequence of points (open path)
OpenLen(points) ==
  SumSeq([i \in 1..(Len(points) - 1) |-> dist(points[i], points[i + 1])])

-----------------------------------------------------------------------------
(* Path for plain index sequences (impl Path for T: AsRef<[usize]>) *)

\* evaluate: windows(2), segments with an index outside the map are skipped
IndexPathEvaluate(path, m) ==
  SumSeq([i \in 1..(Len(path) - 1) |->
            IF path[i] < Len(m) /\ path[i + 1] < Len(m)
              THEN dist(At(m, path[i]), At(m, path[i + 1]))
              ELSE 0])

\* reorder: for i in 0..path.len() { map.swap(i, path[i]) }
RECURSIVE IndexPathReorderFrom(_, _, _)
IndexPathReorderFrom(path, i, points) ==
  IF i >= Len(path) THEN [ok |-> TRUE, points |-> points]
  ELSE LET r == MapSwap(points, i, At(path, i))
       IN IF r.ok THEN IndexPathReorderFrom(path, i + 1, r.points) ELSE r

IndexPathReorder(path, points) == IndexPathReorderFrom(path, 0, points)

-----------------------------------------------------------------------------
(* Genomes: [kind, data, map_size]; data is RemovalIndex.path,             *)
(* RandomKeyPath.key or SwapPath.swaps, map_size is SwapPath.map_size      *)

Genome(kind, data, map_size) ==
  [kind |-> kind, data |-> data, map_size |-> map_size]

KeyVals == 0..(MaxKey - 1)

\* RemovalIndex::new: path[i] = rng % (map.size() - i), for i < map.size() - 1;
\* map.size() - 1 underflows on an empty map
RemovalIndexNew(m) ==
  IF Len(m) = 0 THEN {}
  ELSE {Genome("RemovalIndex", p, 0) :
          p \in {q \in [1..(Len(m) - 1) -> 0..(Len(m) - 1)] :
                   \A i \in 1..(Len(m) - 1) : q[i] < Len(m) - (i - 1)}}

\* RandomKeyPath::new: one random key per city
RandomKeyPathNew(m) ==
  {Genome("RandomKeyPath", k, 0) : k \in [1..Len(m) -> KeyVals]}

\* SwapPath::new: 2 * swap_count indices, each rng % map_size (which panics
\* for map_size = 0 when swap_count > 0)
SwapPathNew(m, swap_count) ==
  IF Len(m) = 0 /\ swap_count > 0 THEN {}
  ELSE {Genome("SwapPath", s, Len(m)) :
          s \in [1..(2 * swap_count) -> 0..(Len(m) - 1)]}

NewGenomes(m) ==
  RemovalIndexNew(m) \cup RandomKeyPathNew(m)
    \cup UNION {SwapPathNew(m, c) : c \in 0..MaxSwaps}

\* a faulty RemovalIndex::evaluate loop: the edge to the city left in the
\* working list is not added
RECURSIVE RemovalEvaluateLoopNoLast(_, _, _, _, _)
RemovalEvaluateLoopNoLast(path, i, cloned, last, total) ==
  IF i >= Len(path)
    THEN IF Len(cloned) = 0 THEN [ok |-> FALSE, value |-> 0]
         ELSE [ok |-> TRUE, value |-> total]
  ELSE IF At(path, i) >= Len(cloned) THEN [ok |-> FALSE, value |-> 0]
  ELSE LET removed == At(cloned, At(path, i))
       IN RemovalEvaluateLoopNoLast(path, i + 1, RemoveAt(cloned, At(path, i)),
                                    removed, total + dist(removed, last))

\* RemovalIndex::evaluate, the loop `for i in 1..self.path.len()` and the
\* returned `total + last.dist(&cloned[0])`
RECURSIVE RemovalEvaluateLoop(_, _, _, _, _)
RemovalEvaluateLoop(path, i, cloned, last, total) ==
  IF i >= Len(path)
    THEN IF Len(cloned) = 0 THEN [ok |-> FALSE, value |-> 0]
         ELSE [ok |-> TRUE, value |-> total + dist(last, At(cloned, 0))]
  ELSE IF At(path, i) >= Len(cloned) THEN [ok |-> FALSE, value |-> 0]
  ELSE LET removed == At(cloned, At(path, i))
       IN RemovalEvaluateLoop(path, i + 1, RemoveAt(cloned, At(path, i)),
                              removed, total + dist(removed, last))

RemovalEvaluate(path, m) ==
  IF Len(m) # Len(path) + 1 THEN [ok |-> TRUE, value |-> 0]
  ELSE IF Len(path) = 0 \/ At(path, 0) >= Len(m) THEN [ok |-> FALSE, value |-> 0]
  ELSE RemovalEvaluateLoop(path, 1, RemoveAt(m, At(path, 0)),
                           At(m, At(path, 0)), 0)

\* RemovalIndex::reorder
RECURSIVE RemovalReorderLoop(_, _, _, _)
RemovalReorderLoop(path, i, cloned, points) ==
  IF i >= Len(path)
    THEN IF Len(cloned) = 0 THEN [ok |-> FALSE, points |-> points]
         ELSE [ok |-> TRUE,
               points |-> [points EXCEPT ![Len(points)] = At(cloned, 0)]]
  ELSE IF At(path, i) >= Len(cloned) THEN [ok |-> FALSE, points |-> points]
  ELSE RemovalReorderLoop(path, i + 1, RemoveAt(cloned, At(path, i)),
                          [points EXCEPT ![i + 1] = At(cloned, At(path, i))])

RemovalReorder(path, points) ==
  IF Len(points) # Len(path) + 1 THEN [ok |-> TRUE, points |-> points]
  ELSE RemovalReorderLoop(path, 0, points, points)

\* RandomKeyPath::as_index_path: the city indices in a stable sort by key
KeyRank(key, i) ==
  Cardinality({j \in 1..Len(key) :
                 key[j] < key[i] \/ (key[j] = key[i] /\ j < i)})

as_index_path(key) ==
  [p \in 1..Len(key) |-> (CHOOSE i \in 1..Len(key) : KeyRank(key, i) = p - 1) - 1]

\* SwapPath::evaluate, the loop over self.swaps.chunks(2) on the cloned Vec
RECURSIVE SwapApplyVec(_, _, _)
SwapApplyVec(swaps, c, cloned) ==
  IF 2 * c >= Len(swaps) THEN [ok |-> TRUE, points |-> cloned]
  ELSE IF At(swaps, 2 * c) >= Len(cloned) \/ At(swaps, 2 * c + 1) >= Len(cloned)
    THEN [ok |-> FALSE, points |-> cloned]
  ELSE SwapApplyVec(swaps, c + 1,
                    SwapAt(cloned, At(swaps, 2 * c), At(swaps, 2 * c + 1)))

SwapEvaluate(swaps, m) ==
  LET r == SwapApplyVec(swaps, 0, m)
  IN IF r.ok THEN [ok |-> TRUE, value |-> OpenLen(r.points)]
     ELSE [ok |-> FALSE, value |-> 0]

\* SwapPath::reorder, the loop over self.swaps.chunks(2) on the live Map
RECURSIVE SwapReorderFrom(_, _, _)
SwapReorderFrom(swaps, c, points) ==
  IF 2 * c >= Len(swaps) THEN [ok |-> TRUE, points |-> points]
  ELSE LET r == MapSwap(points, At(swaps, 2 * c), At(swaps, 2 * c + 1))
       IN IF r.ok THEN SwapReorderFrom(swaps, c + 1, r.points) ELSE r

\* Path::evaluate, dispatched on the encoding
evaluate(g, m) ==
  CASE g.kind = "RemovalIndex" -> RemovalEvaluate(g.data, m)
    [] g.kind = "RandomKeyPath" ->
         [ok |-> TRUE, value |-> IndexPathEvaluate(as_index_path(g.data), m)]
    [] g.kind = "SwapPath" -> SwapEvaluate(g.data, m)

\* Path::reorder, dispatched on the encoding
reorder(g, points) ==
  CASE g.kind = "RemovalIndex" -> RemovalReorder(g.data, points)
    [] g.kind = "RandomKeyPath" -> IndexPathReorder(as_index_path(g.data), points)
    [] g.kind = "SwapPath" -> SwapReorderFrom(g.data, 0, points)

-----------------------------------------------------------------------------
(* Specification SpecPath: a genome built by `new` for a map is evaluated  *)
(* on the map and then reorders a copy of it.                              *)

PathIdle ==
  /\ pPc = "idle"
  /\ pMap = <<>>
  /\ pMap0 = <<>>
  /\ pGenome = Genome("SwapPath", <<>>, 0)
  /\ pLoss = [ok |-> TRUE, value |-> 0]
  /\ pReorderOk = TRUE

PathInit ==
  /\ pPc = "init"
  /\ \E n \in 0..MaxPathCities : pMap0 \in Maps(n)
  /\ pMap = pMap0
  /\ pGenome \in NewGenomes(pMap0)
  /\ pLoss = [ok |-> TRUE, value |-> 0]
  /\ pReorderOk = TRUE

PathEvaluate ==
  /\ pPc = "init"
  /\ pLoss' = evaluate(pGenome, pMap0)
  /\ pPc' = "evaluated"
  /\ UNCHANGED <<pMap, pMap0, pGenome, pReorderOk>>
  /\ UNCHANGED notPath

PathReorder ==
  /\ pPc = "evaluated"
  /\ LET r == reorder(pGenome, pMap)
     IN /\ pMap' = r.points
        /\ pReorderOk' = r.ok
  /\ pPc' = "reordered"
  /\ UNCHANGED <<pMap0, pGenome, pLoss>>
  /\ UNCHANGED notPath

PathNext == PathEvaluate \/ PathReorder

-----------------------------------------------------------------------------
(* Chromosome (src/src/ga.rs, src/src/map.rs) *)

\* a faulty slice_crossover: the slice of second is copied into first only
slice_crossover_copy(first, second, start, end) ==
  IF start > end \/ end > Len(first) \/ end > Len(second)
    THEN [ok |-> FALSE, first |-> first, second |-> second]
    ELSE [ok |-> TRUE,
          first |-> [i \in 1..Len(first) |->
                       IF start < i /\ i <= end THEN second[i] ELSE first[i]],
          second |-> second]

\* slice_crossover: first[start..end].swap_with_slice(second[start..end]);
\* either slice expression panics when start > end or end > len
slice_crossover(first, second, start, end) ==
  IF start > end \/ end > Len(first) \/ end > Len(second)
    THEN [ok |-> FALSE, first |-> first, second |-> second]
    ELSE [ok |-> TRUE,
          first |-> [i \in 1..Len(first) |->
                       IF start < i /\ i <= end THEN second[i] ELSE first[i]],
          second |-> [i \in 1..Len(second) |->
                        IF start < i /\ i <= end THEN first[i] ELSE second[i]]]

\* Chromosome::len
len(g) == Len(g.data)

\* Chromosome::crossover, the same for the three encodings
crossover(g, other, start, end) ==
  LET r == slice_crossover(g.data, other.data, start, end)
  IN [ok |-> r.ok,
      first |-> [g EXCEPT !.data = r.first],
      second |-> [other EXCEPT !.data = r.second]]

\* a faulty RemovalIndex modulus: the domain does not shrink with the locus
RemovalMutationModulusFlat(length, index) == length + 1

\* RemovalIndex::point_mutation, the modulus self.path.len() - index
RemovalMutationModulus(length, index) == length - index

\* the values point_mutation(index) can store, by encoding; rng % 0 panics,
\* which leaves no value
MutationValues(g, index) ==
  CASE g.kind = "RemovalIndex" ->
         0..(RemovalMutationModulus(len(g), index) - 1)
    [] g.kind = "RandomKeyPath" -> KeyVals
    [] g.kind = "SwapPath" -> 0..(g.map_size - 1)

\* Chromosome::point_mutation with the drawn value v
point_mutation(g, index, v) == [g EXCEPT !.data[index + 1] = v]

-----------------------------------------------------------------------------
(* Specification SpecChrom: two genomes built by `new` for the same map,   *)
(* then any sequence of crossover and point_mutation calls.                *)

ChromIdle ==
  /\ cMap = <<>>
  /\ cFirst = Genome("SwapPath", <<>>, 0)
  /\ cSecond = Genome("SwapPath", <<>>, 0)
  /\ cSnapFirst = cFirst
  /\ cSnapSecond = cSecond
  /\ cBounds = <<0, 0>>
  /\ cRepeat = 0
  /\ cMutated = FALSE
  /\ cAborted = FALSE

\* the swap_count values of the SwapPath genomes of this specification
ChromSwapCounts == {0, 1}

ChromGenomes(m) ==
  RemovalIndexNew(m) \cup RandomKeyPathNew(m)
    \cup UNION {SwapPathNew(m, c) : c \in ChromSwapCounts}

ChromInit ==
  /\ \E n \in 0..MaxChromCities : cMap = MapOf(1, n)
  /\ cFirst \in ChromGenomes(cMap)
  /\ cSecond \in {g \in ChromGenomes(cMap) :
                    g.kind = cFirst.kind /\ len(g) = len(cFirst)}
  /\ cSnapFirst = cFirst
  /\ cSnapSecond = cSecond
  /\ cBounds = <<0, 0>>
  /\ cRepeat = 0
  /\ cMutated = FALSE
  /\ cAborted = FALSE

\* a.crossover(b, start, end) with any bounds, in range or one past it
ChromCrossover ==
  /\ ~cAborted
  /\ \E start \in 0..(len(cFirst) + 1), end \in 0..(len(cFirst) + 1) :
       LET r == crossover(cFirst, cSecond, start, end)
       IN /\ cFirst' = r.first
          /\ cSecond' = r.second
          /\ cAborted' = ~r.ok
          /\ cBounds' = <<start, end>>
  /\ cSnapFirst' = cFirst
  /\ cSnapSecond' = cSecond
  /\ cRepeat' = 1
  /\ UNCHANGED <<cMap, cMutated>>
  /\ UNCHANGED notChrom

\* the same call once more, directly after the first
ChromCrossoverAgain ==
  /\ ~cAborted
  /\ cRepeat = 1
  /\ LET r == crossover(cFirst, cSecond, cBounds[1], cBounds[2])
     IN /\ cFirst' = r.first
        /\ cSecond' = r.second
        /\ cAborted' = ~r.ok
  /\ cRepeat' = 2
  /\ UNCHANGED <<cMap, cSnapFirst, cSnapSecond, cBounds, cMutated>>
  /\ UNCHANGED notChrom

\* point_mutation on either genome, any locus in range, any draw
ChromPointMutation ==
  /\ ~cAborted
  /\ \E which \in {1, 2}, index \in 0..(len(cFirst) - 1) :
       LET g == IF which = 1 THEN cFirst ELSE cSecond
       IN \E v \in MutationValues(g, index) :
            /\ cFirst' = IF which = 1 THEN point_mutation(g, index, v) ELSE cFirst
            /\ cSecond' = IF which = 2 THEN point_mutation(g, index, v) ELSE cSecond
  /\ cSnapFirst' = cFirst'
  /\ cSnapSecond' = cSecond'
  /\ cBounds' = <<0, 0>>
  /\ cRepeat' = 0
  /\ cMutated' = TRUE
  /\ UNCHANGED <<cMap, cAborted>>
  /\ UNCHANGED notChrom

ChromNext == ChromCrossover \/ ChromCrossoverAgain \/ ChromPointMutation

-----------------------------------------------------------------------------
(* brute_force (src/src/solve.rs) *)

\* a faulty advance test: `<` for `>`
BruteDescendsFlipped(cur, inc) == At(cur, inc) < At(cur, inc + 1)

\* the advance test of the inner while: current[increase] > current[increase + 1]
BruteDescends(cur, inc) == At(cur, inc) > At(cur, inc + 1)

\* while increase < max && current[increase] > current[increase + 1] { increase += 1 }
RECURSIVE BruteAdvance(_, _, _)
BruteAdvance(cur, inc, max) ==
  IF inc < max /\ BruteDescends(cur, inc) THEN BruteAdvance(cur, inc + 1, max)
  ELSE inc

\* The binary search `while !(current[mid] < top && current[mid - 1] > top)`.
\* current[mid] with mid >= len panics, and so does current[mid - 1] with
\* mid = 0; && evaluates its right operand only when the left one holds.
\* fuel counts the iterations left before the search is taken not to end.
RECURSIVE BruteSearch(_, _, _, _, _, _)
BruteSearch(cur, start, end, mid, top, fuel) ==
  IF mid >= Len(cur) \/ fuel = 0 THEN [ok |-> FALSE, mid |-> mid]
  ELSE IF At(cur, mid) < top
    THEN IF mid = 0 THEN [ok |-> FALSE, mid |-> mid]
         ELSE IF At(cur, mid - 1) > top THEN [ok |-> TRUE, mid |-> mid]
         ELSE BruteSearch(cur, start, mid - 1, (start + mid - 1) \div 2, top,
                          fuel - 1)
  ELSE BruteSearch(cur, mid + 1, end, (mid + 1 + end) \div 2, top, fuel - 1)

\* for i in 0..=increase / 2 { current.swap(i, increase - i) }
RECURSIVE BruteReverse(_, _, _)
BruteReverse(cur, i, inc) ==
  IF i > inc \div 2 THEN cur
  ELSE BruteReverse(SwapAt(cur, i, inc - i), i + 1, inc)

\* the else branch of the loop body, up to `increase = 0`
BruteCarry(cur, inc) ==
  IF At(cur, inc + 1) > At(cur, 0)
    THEN [ok |-> TRUE, current |-> BruteReverse(SwapAt(cur, inc + 1, 0), 0, inc)]
    ELSE LET r == BruteSearch(cur, 0, inc, inc \div 2, At(cur, inc + 1),
                              Len(cur) + 1)
         IN IF r.ok
              THEN [ok |-> TRUE,
                    current |-> BruteReverse(SwapAt(cur, inc + 1, r.mid), 0, inc)]
              ELSE [ok |-> FALSE, current |-> cur]

BruteIdle ==
  /\ bPc = "idle"
  /\ bMap = <<>>
  /\ current = <<>>
  /\ solution = <<>>
  /\ shortest_dist = 0
  /\ increase = 0
  /\ counter = 0
  /\ bVisited = {}
  /\ bFresh = TRUE

\* brute_force is about to be called on a map
BruteInit ==
  /\ bPc = "call"
  /\ \E n \in 0..MaxBruteCities : bMap \in Maps(n)
  /\ current = <<>>
  /\ solution = <<>>
  /\ shortest_dist = 0
  /\ increase = 0
  /\ counter = 0
  /\ bVisited = {}
  /\ bFresh = TRUE

\* the statements before the loop; map.size() - 1 has no value on an empty
\* map (checked arithmetic panics, wrapping arithmetic makes the first
\* current.swap(0, 1) index out of range)
BruteStart ==
  /\ bPc = "call"
  /\ IF Len(bMap) = 0
       THEN /\ bPc' = "abort"
            /\ UNCHANGED <<current, solution, shortest_dist, bVisited>>
       ELSE LET identity == [i \in 1..Len(bMap) |-> i - 1]
            IN /\ current' = identity
               /\ solution' = identity
               /\ shortest_dist' = IndexPathEvaluate(identity, bMap)
               /\ bVisited' = {identity}
               /\ bPc' = "loop"
  /\ increase' = 0
  /\ UNCHANGED <<bMap, counter, bFresh>>
  /\ UNCHANGED notBrute

\* one iteration of `while increase != max`
BruteStep ==
  /\ bPc = "loop"
  /\ increase # Len(bMap) - 1
  /\ counter' = counter + 1
  /\ LET max == Len(bMap) - 1
         r == IF increase = 0
                THEN [ok |-> TRUE, current |-> SwapAt(current, 0, 1)]
                ELSE BruteCarry(current, increase)
         d == IndexPathEvaluate(r.current, bMap)
     IN IF r.ok
          THEN /\ current' = r.current
               /\ increase' = IF increase = 0
                                THEN BruteAdvance(r.current, 1, max)
                                ELSE 0
               /\ IF d < shortest_dist
                    THEN shortest_dist' = d /\ solution' = r.current
                    ELSE UNCHANGED <<shortest_dist, solution>>
               /\ bVisited' = bVisited \cup {r.current}
               /\ bFresh' = (bFresh /\ r.current \notin bVisited)
               /\ bPc' = "loop"
          ELSE /\ bPc' = "abort"
               /\ UNCHANGED <<current, increase, shortest_dist, solution,
                              bVisited, bFresh>>
  /\ UNCHANGED bMap
  /\ UNCHANGED notBrute

\* the loop ends and (solution, shortest_dist) is returned
BruteReturn ==
  /\ bPc = "loop"
  /\ increase = Len(bMap) - 1
  /\ bPc' = "done"
  /\ UNCHANGED <<bMap, current, solution, shortest_dist, increase, counter,
                 bVisited, bFresh>>
  /\ UNCHANGED notBrute

BruteNext == BruteStart \/ BruteStep \/ BruteReturn

-----------------------------------------------------------------------------
(* Recombinator: KPoint and Uniform (src/src/ga.rs) *)

\* rng.gen::<f32>(): k stands for k / RandDen, in [0, 1)
Draws == 0..(RandDen - 1)

\* the random draws a recombine call can consume: one bool and f32s
DrawSeqs(n) == [1..n -> Draws]

\* the state of a recombine call in progress
RecAcc(ok, first, second, calls) ==
  [ok |-> ok, first |-> first, second |-> second, calls |-> calls]

\* first.crossover(second, start, end) inside recombine; a panic ends the call
RecCrossover(acc, start, end) ==
  IF ~acc.ok THEN acc
  ELSE LET r == crossover(acc.first, acc.second, start, end)
       IN RecAcc(r.ok, r.first, r.second, Append(acc.calls, <<start, end>>))

\* KPoint::new: assert!(count > 0); the field holds count - 1
KPointNew(count) ==
  IF count > 0 THEN [ok |-> TRUE,
                     value |-> [kind |-> "KPoint", count |-> count - 1,
                                weight |-> <<0, 1>>]]
  ELSE [ok |-> FALSE, value |-> [kind |-> "KPoint", count |-> 0,
                                 weight |-> <<0, 1>>]]

\* Uniform::new: weight 0.5
UniformNew == [kind |-> "Uniform", count |-> 0, weight |-> <<1, 2>>]

\* Uniform::weighted(num / den): assert!(weight > 0.0 && weight <= 0.5)
UniformWeighted(num, den) ==
  IF num > 0 /\ 2 * num <= den
    THEN [ok |-> TRUE,
          value |-> [kind |-> "Uniform", count |-> 0, weight |-> <<num, den>>]]
    ELSE [ok |-> FALSE, value |-> UniformNew]

\* a faulty single_point: the bounds of the crossover call are exchanged
single_point_reversed(acc, k) ==
  RecCrossover(acc, len(acc.first), (k * len(acc.first)) \div RandDen)

\* KPoint::single_point: cut = (rng * len) as usize; crossover(cut, len)
single_point(acc, k) ==
  RecCrossover(acc, (k * len(acc.first)) \div RandDen, len(acc.first))

\* The loop of KPoint::recombine.  With step = len / (count + 1), `end` is
\* the rational endNum / (RandDen * (count + 1)); `start as usize` truncates
\* and `end.round()` rounds half away from zero.
RECURSIVE KPointLoop(_, _, _, _, _)
KPointLoop(acc, count, i, endNum, draws) ==
  IF i >= count \/ ~acc.ok THEN acc
  ELSE LET den == RandDen * (count + 1)
           newEnd == len(acc.first) * (At(draws, i + 1) + (i + 1) * RandDen)
       IN KPointLoop(RecCrossover(acc, endNum \div den,
                                  (2 * newEnd + den) \div (2 * den)),
                     count, i + 1, newEnd, draws)

\* The loop `for i in 1..first.len()` of Uniform::recombine; draws[i] is the
\* f32 drawn at locus i, skipped over when it is > weight.
RECURSIVE UniformLoop(_, _, _, _, _, _)
UniformLoop(acc, weight, i, copy, last_index, draws) ==
  IF i >= len(acc.first) \/ ~acc.ok
    THEN IF copy THEN RecCrossover(acc, last_index, len(acc.first)) ELSE acc
  ELSE IF draws[i] * weight[2] > weight[1] * RandDen
    THEN UniformLoop(acc, weight, i + 1, copy, last_index, draws)
  ELSE UniformLoop(IF copy THEN RecCrossover(acc, last_index, i) ELSE acc,
                   weight, i + 1, ~copy, i, draws)

\* the number of f32 draws a recombine call on genomes of this length makes
RecombineDraws(r, length) ==
  IF r.kind = "KPoint" THEN r.count + 1
  ELSE IF length > 0 THEN length - 1 ELSE 0

\* a faulty precondition: the lengths are not compared
SameLengthUnchecked(first, second) == TRUE

\* assert_eq!(first.len(), second.len()), the first statement of both
\* recombine functions
SameLength(first, second) == len(first) = len(second)

\* Recombinator::recombine with the bool `coin` and the f32s `draws` as the
\* values the rng yields; `used` counts the draws consumed
recombine(r, first, second, coin, draws) ==
  IF ~SameLength(first, second)
    THEN [acc |-> RecAcc(FALSE, first, second, <<>>), used |-> 0]
  ELSE LET acc == RecAcc(TRUE, first, second, <<>>)
       IN IF r.kind = "KPoint"
            THEN [acc |-> IF r.count = 0
                            THEN single_point(acc, draws[1])
                            ELSE KPointLoop(acc, r.count, 0,
                                            len(first) * draws[1], draws),
                  used |-> r.count + 1]
            ELSE [acc |-> UniformLoop(acc, r.weight, 1, coin, 0, draws),
                  used |-> 1 + RecombineDraws(r, len(first))]

RecIdle ==
  /\ rPc = "idle"
  /\ rCtor = [name |-> "none", arg |-> 0]
  /\ recombinator = UniformNew
  /\ rFirst = Genome("RandomKeyPath", <<>>, 0)
  /\ rSecond = Genome("RandomKeyPath", <<>>, 0)
  /\ rFirst0 = rFirst
  /\ rSecond0 = rSecond
  /\ rDraws = 0
  /\ rCalls = <<>>

\* Two random-key genomes of any two lengths; recombine never reads a locus,
\* so the keys of first are all 0 and those of second all 1.
RecInit ==
  /\ rPc = "new"
  /\ rCtor = [name |-> "none", arg |-> 0]
  /\ recombinator = UniformNew
  /\ \E la \in 0..MaxRecLen, lb \in 0..MaxRecLen :
       /\ rFirst = Genome("RandomKeyPath", [i \in 1..la |-> 0], 0)
       /\ rSecond = Genome("RandomKeyPath", [i \in 1..lb |-> 1], 0)
  /\ rFirst0 = rFirst
  /\ rSecond0 = rSecond
  /\ rDraws = 0
  /\ rCalls = <<>>

\* KPoint::new(count)
RecKPointNew ==
  /\ rPc = "new"
  /\ \E count \in 0..MaxCount :
       /\ rCtor' = [name |-> "KPoint::new", arg |-> count]
       /\ recombinator' = KPointNew(count).value
       /\ rPc' = IF KPointNew(count).ok THEN "ready" ELSE "abort_new"
  /\ UNCHANGED <<rFirst, rSecond, rFirst0, rSecond0, rDraws, rCalls>>
  /\ UNCHANGED notRec

\* Uniform::new()
RecUniformNew ==
  /\ rPc = "new"
  /\ rCtor' = [name |-> "Uniform::new", arg |-> 0]
  /\ recombinator' = UniformNew
  /\ rPc' = "ready"
  /\ UNCHANGED <<rFirst, rSecond, rFirst0, rSecond0, rDraws, rCalls>>
  /\ UNCHANGED notRec

\* Uniform::weighted(num / RandDen), for weights from below 0 to 1
RecUniformWeighted ==
  /\ rPc = "new"
  /\ \E num \in (-1)..RandDen :
       /\ rCtor' = [name |-> "Uniform::weighted", arg |-> num]
       /\ recombinator' = UniformWeighted(num, RandDen).value
       /\ rPc' = IF UniformWeighted(num, RandDen).ok THEN "ready" ELSE "abort_new"
  /\ UNCHANGED <<rFirst, rSecond, rFirst0, rSecond0, rDraws, rCalls>>
  /\ UNCHANGED notRec

\* recombinator.recombine(&mut first, &mut second, &mut rng)
RecRecombine ==
  /\ rPc = "ready"
  /\ \E coin \in BOOLEAN,
        draws \in DrawSeqs(Max2(1, RecombineDraws(recombinator, len(rFirst)))) :
       LET r == recombine(recombinator, rFirst, rSecond, coin, draws)
       IN /\ rFirst' = r.acc.first
          /\ rSecond' = r.acc.second
          /\ rCalls' = r.acc.calls
          /\ rDraws' = r.used
          /\ rPc' = IF r.acc.ok THEN "done" ELSE "abort_recombine"
  /\ UNCHANGED <<rCtor, recombinator, rFirst0, rSecond0>>
  /\ UNCHANGED notRec

RecNext == RecKPointNew \/ RecUniformNew \/ RecUniformWeighted \/ RecRecombine

-----------------------------------------------------------------------------
(* RandomKeyPath::fix (src/src/map.rs) *)

\* a faulty window test: `<=` for `<`
WindowImprovesOrTies(alternative, cur) == alternative <= cur

\* `if alternative < current` of the window loop
WindowImproves(alternative, cur) == alternative < cur

\* One pass `while j < index_path.len() - 3 { ...; j += 3 }`.  index_path is
\* the sorted view, as city indices; the &mut f32 of an entry is the key slot
\* of its city.  An improving window exchanges the key values of the cities
\* at positions j + 1 and j + 2, and the two entries of the view.
RECURSIVE FixPass(_, _, _, _)
FixPass(j, index_path, key, m) ==
  IF j >= Len(index_path) - 3 THEN [index_path |-> index_path, key |-> key]
  ELSE LET s0 == At(m, At(index_path, j))
           s1 == At(m, At(index_path, j + 1))
           s2 == At(m, At(index_path, j + 2))
           s3 == At(m, At(index_path, j + 3))
           cur == dist(s0, s1) + dist(s2, s3)
           alternative == dist(s0, s2) + dist(s1, s3)
       IN IF WindowImproves(alternative, cur)
            THEN FixPass(j + 3, SwapAt(index_path, j + 1, j + 2),
                         SwapAt(key, At(index_path, j + 1), At(index_path, j + 2)),
                         m)
            ELSE FixPass(j + 3, index_path, key, m)

\* "Fix the middle": for i in 0..3 { let mut j = i; ... }
FixMiddle(index_path, key, m) ==
  LET p0 == FixPass(0, index_path, key, m)
      p1 == FixPass(1, p0.index_path, p0.key, m)
  IN FixPass(2, p1.index_path, p1.key, m)

\* "Fix the start point": the first two decoded cities against the third
FixStartFires(index_path, m) ==
  dist_sq(At(m, At(index_path, 0)), At(m, At(index_path, 2)))
    < dist_sq(At(m, At(index_path, 1)), At(m, At(index_path, 2)))

\* "Fix the end point": the last two decoded cities against the third from
\* the end, only `if len > 5`
FixEndFires(index_path, m) ==
  LET n == Len(index_path)
  IN /\ n > 5
     /\ dist_sq(At(m, At(index_path, n - 1)), At(m, At(index_path, n - 3)))
          < dist_sq(At(m, At(index_path, n - 2)), At(m, At(index_path, n - 3)))

\* RandomKeyPath::fix; the start and end checks exchange key values only
fix(key, m) ==
  IF Len(key) < 3 THEN key
  ELSE LET mid == FixMiddle(as_index_path(key), key, m)
           ip == mid.index_path
           n == Len(key)
           k1 == IF FixStartFires(ip, m)
                   THEN SwapAt(mid.key, At(ip, 0), At(ip, 1))
                   ELSE mid.key
       IN IF FixEndFires(ip, m)
            THEN SwapAt(k1, At(ip, n - 2), At(ip, n - 1))
            ELSE k1

\* Path::fix, dispatched on the encoding: a no-op but for RandomKeyPath
PathFix(g, m) ==
  IF g.kind = "RandomKeyPath" THEN [g EXCEPT !.data = fix(g.data, m)] ELSE g

FixIdle ==
  /\ fPc = "idle"
  /\ fMap = <<>>
  /\ fKey0 = <<>>
  /\ fKey = <<>>

\* a RandomKeyPath with one key per city of the map
FixInit ==
  /\ fPc = "init"
  /\ \E n \in 0..MaxFixCities :
       /\ fMap \in Maps(n)
       /\ fKey0 \in [1..n -> 0..(MaxFixKey - 1)]
  /\ fKey = fKey0

\* genome.fix(&map)
FixCall ==
  /\ fPc = "init"
  /\ fKey' = fix(fKey, fMap)
  /\ fPc' = "fixed"
  /\ UNCHANGED <<fMap, fKey0>>
  /\ UNCHANGED notFix

FixNext == FixCall

-----------------------------------------------------------------------------
(* RouletteWheelSelection::evolve (src/src/ga.rs) *)

\* The map of the evolve specification: three corners of the rectangle, on
\* which the three visiting orders have the losses 7, 8 and 9.
EvolveMap == MapOf(1, 3)

\* The genomes of a population: RandomKeyPath, as in main.rs
EvolveGenomes == RandomKeyPathNew(EvolveMap)

\* The strategy handed to evolve: Uniform::new(), as in main.rs
EvolveRecombinator == UniformNew

\* population[i].evaluate(map); no evaluate of a RandomKeyPath panics
Loss(g) == evaluate(g, EvolveMap).value

RECURSIVE SeqMin(_)
SeqMin(s) ==
  IF Len(s) = 1 THEN s[1] ELSE Min2(s[1], SeqMin(Tail(s)))

\* sort_by with partial_cmp, a stable sort: the ranks of the entries of a
\* sequence of numbers
SortRank(ks, i) ==
  Cardinality({j \in 1..Len(ks) : ks[j] < ks[i] \/ (ks[j] = ks[i] /\ j < i)})

\* s stably sorted by the keys ks
SortedBy(s, ks) ==
  [p \in 1..Len(s) |-> s[CHOOSE i \in 1..Len(s) : SortRank(ks, i) = p - 1]]

\* 1.max(((replace_percent - elitist_percent) * n as f32) as usize): the
\* cast truncates and takes a negative value to 0
TargetOffspringCount(replace, elitist, size) ==
  Max2(1, IF replace > elitist
            THEN ((replace - elitist) * size) \div RatioDen
            ELSE 0)

\* `(i == 0 || selections[0] != j)` of the weighted draw
ParentAdmissible(i, sel0, j) == i = 0 \/ sel0 # j

\* The inner loop `for j in 0..n` of the selector.  The weight of j is
\* ls[j] / sum; random is kept as the numerator over sum * RandDen.  With
\* sum = 0 every weight is NaN and no comparison holds.
RECURSIVE SelectFrom(_, _, _, _, _, _)
SelectFrom(random, j, i, sel0, ls, sum) ==
  IF j >= Len(ls) THEN Len(ls) - 1
  ELSE IF sum > 0 /\ random < At(ls, j) * RandDen /\ ParentAdmissible(i, sel0, j)
    THEN j
  ELSE SelectFrom(random - At(ls, j) * RandDen, j + 1, i, sel0, ls, sum)

\* a faulty minimum: never lowered
UpdateMinNever(m, loss) == m

\* if loss < min_loss { min_loss = loss }
UpdateMin(m, loss) == IF loss < m THEN loss ELSE m

\* a faulty trim: it cuts the population back to its first n entries
TrimLoopFromEnd(pop, index, size) ==
  [pop |-> SubSeq(pop, 1, Min2(size, Len(pop))), underflow |-> FALSE]

\* while population.len() > n { population.remove(index); index -= 1; }
\* underflow: `index -= 1` was reached with index = 0, where the loop stops
RECURSIVE TrimLoop(_, _, _)
TrimLoop(pop, index, size) ==
  IF Len(pop) <= size THEN [pop |-> pop, underflow |-> FALSE]
  ELSE IF index = 0 THEN [pop |-> RemoveAt(pop, index), underflow |-> TRUE]
  ELSE TrimLoop(RemoveAt(pop, index), index - 1, size)

EvolveIdle ==
  /\ ePc = "off"
  /\ population = <<>>
  /\ fixArg = FALSE
  /\ eElitist = FALSE
  /\ popSize = 0
  /\ losses = <<>>
  /\ loss_sum = 0
  /\ min_loss = 0
  /\ offspring_count = 0
  /\ target_offspring_count = 0
  /\ selections = <<0, 0>>
  /\ firstClone = Genome("RandomKeyPath", <<>>, 0)
  /\ secondClone = Genome("RandomKeyPath", <<>>, 0)
  /\ eReturn = 0
  /\ ePop0 = <<>>
  /\ ePre = <<>>
  /\ eOffspring = <<>>
  /\ eCloneLosses = {}

\* the driver holds a population of 1..MaxPop genomes built by `new`
EvolveInit ==
  /\ ePc = "idle"
  /\ \E size \in 1..MaxPop : population \in [1..size -> EvolveGenomes]
  /\ fixArg = FALSE
  /\ eElitist = FALSE
  /\ popSize = 0
  /\ losses = <<>>
  /\ loss_sum = 0
  /\ min_loss = 0
  /\ offspring_count = 0
  /\ target_offspring_count = 0
  /\ selections = <<0, 0>>
  /\ firstClone = Genome("RandomKeyPath", <<>>, 0)
  /\ secondClone = Genome("RandomKeyPath", <<>>, 0)
  /\ eReturn = 0
  /\ ePop0 = <<>>
  /\ ePre = <<>>
  /\ eOffspring = <<>>
  /\ eCloneLosses = {}

\* evolve is called: the loss vector, the elitist sort and the offspring
\* target (lines 124 to 151), for any two ratios in [0, 1] and either `fix`
EvolveBegin ==
  /\ ePc \in {"idle", "returned"}
  /\ \E replace \in 0..RatioDen, elitist \in 0..RatioDen, f \in BOOLEAN :
       LET ls == [i \in 1..Len(population) |-> Loss(population[i])]
           sorted == IF elitist > 0 THEN SortedBy(population, ls) ELSE population
       IN /\ fixArg' = f
          /\ eElitist' = (elitist > 0)
          /\ popSize' = Len(population)
          /\ loss_sum' = SumSeq(ls)
          /\ min_loss' = SeqMin(ls)
          /\ losses' = IF elitist > 0 THEN SortedBy(ls, ls) ELSE ls
          /\ population' = sorted
          /\ ePre' = sorted
          /\ target_offspring_count' =
               TargetOffspringCount(replace, elitist, Len(population))
  /\ offspring_count' = 0
  /\ ePop0' = population
  /\ eOffspring' = <<>>
  /\ eCloneLosses' = {}
  /\ eReturn' = 0
  /\ ePc' = "select"
  /\ UNCHANGED <<selections, firstClone, secondClone>>
  /\ UNCHANGED notEvolve

\* "Get the two parents": the labelled loop 'selector with its two draws
EvolveSelect ==
  /\ ePc = "select"
  /\ \E t0 \in Draws, t1 \in Draws :
       LET s0 == SelectFrom(t0 * loss_sum, 0, 0, 0, losses, loss_sum)
           s1 == SelectFrom(t1 * loss_sum, 0, 1, s0, losses, loss_sum)
       IN selections' = <<s0, s1>>
  /\ ePc' = "recombine"
  /\ UNCHANGED <<population, fixArg, eElitist, popSize, losses, loss_sum, min_loss,
                 offspring_count, target_offspring_count, firstClone, secondClone,
                 eReturn, ePop0, ePre, eOffspring, eCloneLosses>>
  /\ UNCHANGED notEvolve

\* the two clones, and recombine when the draw is below crossover_prob
EvolveRecombine ==
  /\ ePc = "recombine"
  /\ LET a == At(population, selections[1])
         b == At(population, selections[2])
     IN \/ /\ firstClone' = a
           /\ secondClone' = b
           /\ ePc' = "mutate"
        \/ \E coin \in BOOLEAN,
              draws \in DrawSeqs(Max2(1, RecombineDraws(EvolveRecombinator, len(a)))) :
             LET r == recombine(EvolveRecombinator, a, b, coin, draws)
             IN /\ firstClone' = r.acc.first
                /\ secondClone' = r.acc.second
                /\ ePc' = IF r.acc.ok THEN "mutate" ELSE "abort"
  /\ UNCHANGED <<population, fixArg, eElitist, popSize, losses, loss_sum, min_loss,
                 offspring_count, target_offspring_count, selections,
                 eReturn, ePop0, ePre, eOffspring, eCloneLosses>>
  /\ UNCHANGED notEvolve

\* the clones a point mutation can make of g: g itself when the draw is not
\* below mutate_prob, else g with locus rng % len redrawn
Mutations(g) ==
  {g} \cup {point_mutation(g, index, v) :
              index \in 0..(len(g) - 1), v \in KeyVals}

\* the two point mutations, fix, the minimum update and the pushes (lines
\* 175 to 205); rng % first.len() panics on an empty genome.  The pushes
\* move the clones out of first and second, and selections ends with the
\* round.
EvolveMutate ==
  /\ ePc = "mutate"
  /\ IF len(firstClone) = 0
       THEN /\ ePc' = "abort"
            /\ UNCHANGED <<population, min_loss, offspring_count, firstClone,
                           secondClone, selections, eOffspring, eCloneLosses>>
       ELSE \E m1 \in Mutations(firstClone), m2 \in Mutations(secondClone) :
              LET f1 == IF fixArg THEN PathFix(m1, EvolveMap) ELSE m1
                  f2 == IF fixArg THEN PathFix(m2, EvolveMap) ELSE m2
                  both == offspring_count + 1 < target_offspring_count
                  pushed == IF both THEN <<f1, f2>> ELSE <<f1>>
              IN /\ firstClone' = Genome("RandomKeyPath", <<>>, 0)
                 /\ secondClone' = Genome("RandomKeyPath", <<>>, 0)
                 /\ selections' = <<0, 0>>
                 /\ min_loss' = UpdateMin(UpdateMin(min_loss, Loss(f1)), Loss(f2))
                 /\ population' = population \o pushed
                 /\ eOffspring' = eOffspring \o pushed
                 /\ eCloneLosses' = eCloneLosses \cup {Loss(f1), Loss(f2)}
                 /\ offspring_count' = offspring_count + Len(pushed)
                 /\ ePc' = IF offspring_count + Len(pushed) < target_offspring_count
                             THEN "select" ELSE "trim"
  /\ UNCHANGED <<fixArg, eElitist, popSize, losses, loss_sum,
                 target_offspring_count, eReturn, ePop0, ePre>>
  /\ UNCHANGED notEvolve

\* the trim loop ends with index >= 0, and min_loss is returned
EvolveTrim ==
  /\ ePc = "trim"
  /\ ~TrimLoop(population, popSize - 1, popSize).underflow
  /\ population' = TrimLoop(population, popSize - 1, popSize).pop
  /\ eReturn' = min_loss
  /\ ePc' = "returned"
  /\ UNCHANGED <<fixArg, eElitist, popSize, losses, loss_sum, min_loss,
                 offspring_count, target_offspring_count, selections, firstClone,
                 secondClone, ePop0, ePre, eOffspring, eCloneLosses>>
  /\ UNCHANGED notEvolve

\* `index -= 1` with index = 0 in a build with overflow checks (the dev
\* profile): the subtraction panics
EvolveTrimOverflowChecked ==
  /\ ePc = "trim"
  /\ TrimLoop(population, popSize - 1, popSize).underflow
  /\ population' = TrimLoop(population, popSize - 1, popSize).pop
  /\ ePc' = "abort"
  /\ UNCHANGED <<fixArg, eElitist, popSize, losses, loss_sum, min_loss,
                 offspring_count, target_offspring_count, selections, firstClone,
                 secondClone, eReturn, ePop0, ePre, eOffspring, eCloneLosses>>
  /\ UNCHANGED notEvolve

\* `index -= 1` with index = 0 in a build without overflow checks (the
\* release profile): index wraps to usize::MAX, and the next remove would be
\* out of range if the population were still longer than popSize
EvolveTrimOverflowWrapped ==
  /\ ePc = "trim"
  /\ TrimLoop(population, popSize - 1, popSize).underflow
  /\ population' = TrimLoop(population, popSize - 1, popSize).pop
  /\ IF Len(TrimLoop(population, popSize - 1, popSize).pop) > popSize
       THEN ePc' = "abort" /\ UNCHANGED eReturn
       ELSE ePc' = "returned" /\ eReturn' = min_loss
  /\ UNCHANGED <<fixArg, eElitist, popSize, losses, loss_sum, min_loss,
                 offspring_count, target_offspring_count, selections, firstClone,
                 secondClone, ePop0, ePre, eOffspring, eCloneLosses>>
  /\ UNCHANGED notEvolve

EvolveNext ==
  \/ EvolveBegin
  \/ EvolveSelect
  \/ EvolveRecombine
  \/ EvolveMutate
  \/ EvolveTrim
  \/ EvolveTrimOverflowChecked
  \/ EvolveTrimOverflowWrapped

-----------------------------------------------------------------------------
(* The specifications *)

InitPath == EvolveIdle /\ FixIdle /\ PathInit /\ ChromIdle /\ BruteIdle /\ RecIdle
SpecPath == InitPath /\ [][PathNext]_vars

InitChrom == EvolveIdle /\ FixIdle /\ ChromInit /\ PathIdle /\ BruteIdle /\ RecIdle
SpecChrom == InitChrom /\ [][ChromNext]_vars

InitBrute == EvolveIdle /\ FixIdle /\ BruteInit /\ PathIdle /\ ChromIdle /\ RecIdle
SpecBrute == InitBrute /\ [][BruteNext]_vars

InitRec == EvolveIdle /\ FixIdle /\ RecInit /\ PathIdle /\ ChromIdle /\ BruteIdle
SpecRec == InitRec /\ [][RecNext]_vars

InitFix == EvolveIdle /\ FixInit /\ PathIdle /\ ChromIdle /\ BruteIdle /\ RecIdle
SpecFix == InitFix /\ [][FixNext]_vars

InitEvolve ==
  EvolveInit /\ PathIdle /\ ChromIdle /\ BruteIdle /\ RecIdle /\ FixIdle
Spec == InitEvolve /\ [][EvolveNext]_vars

-----------------------------------------------------------------------------
(* Decoded visiting orders, for the statements below *)

\* the points in the order a deletion-rank path removes them from the
\* working list, followed by what is left of the list
RECURSIVE RemovalDecode(_, _)
RemovalDecode(path, cloned) ==
  IF path = <<>> THEN cloned
  ELSE <<At(cloned, Head(path))>>
         \o RemovalDecode(Tail(path), RemoveAt(cloned, Head(path)))

\* the points of m in the visiting order genome g decodes to
DecodedPoints(g, m) ==
  IF g.kind = "RemovalIndex" THEN RemovalDecode(g.data, m)
  ELSE LET order == as_index_path(g.data)
       IN [i \in 1..Len(order) |-> At(m, order[i])]

\* the closed tour over a sequence of points: the open path plus the edge
\* from the last point back to the first
ClosedLen(points) ==
  OpenLen(points)
    + (IF Len(points) >= 1 THEN dist(points[Len(points)], points[1]) ELSE 0)

\* path[i] < mapSize - i at every locus i
ShrinkingDomain(g, m) ==
  \A i \in 0..(len(g) - 1) : At(g.data, i) < Len(m) - i

-----------------------------------------------------------------------------
(* Claims checked under SpecPath *)

\* C4: for each encoding and every genome built for a map (of at least two
\* cities), reorder on a copy of the map returns, and the consecutive
\* distances of the reordered copy sum to the value evaluate returned on the
\* map.
C4_ReorderMatchesEvaluate ==
  (pPc = "reordered" /\ Len(pMap0) >= 2) =>
    /\ pReorderOk
    /\ pLoss.ok
    /\ OpenLen(pMap) = pLoss.value

-----------------------------------------------------------------------------
(* Claims checked under SpecChrom *)

\* C6: for every encoding and in-range bounds, two successive crossover calls
\* with the same bounds restore both genomes; one call keeps both lengths and
\* every locus outside [start, end).
C6_CrossoverInvolution ==
  /\ (cRepeat = 2 /\ ~cAborted) =>
        (cFirst = cSnapFirst /\ cSecond = cSnapSecond)
  /\ (cRepeat = 1 /\ ~cAborted) =>
        /\ len(cFirst) = len(cSnapFirst)
        /\ len(cSecond) = len(cSnapSecond)
        /\ \A i \in 0..(len(cFirst) - 1) :
             (i < cBounds[1] \/ i >= cBounds[2]) =>
               /\ At(cFirst.data, i) = At(cSnapFirst.data, i)
               /\ At(cSecond.data, i) = At(cSnapSecond.data, i)

\* crossover has been called twice with a range on which the genomes differed
C6_Witness ==
  /\ cRepeat = 2
  /\ ~cAborted
  /\ \E i \in cBounds[1]..(cBounds[2] - 1) :
       At(cSnapFirst.data, i) # At(cSnapSecond.data, i)

\* C7: over a map of at least two cities every RemovalIndex genome keeps
\* path[i] < mapSize - i after new and after any point_mutation and crossover
\* calls, so evaluate and reorder never remove out of range.
C7_ShrinkingDomainKept ==
  (cFirst.kind = "RemovalIndex" /\ Len(cMap) >= 2) =>
    \A g \in {cFirst, cSecond} :
      /\ len(g) = Len(cMap) - 1
      /\ ShrinkingDomain(g, cMap)
      /\ evaluate(g, cMap).ok
      /\ reorder(g, cMap).ok

\* a RemovalIndex genome of three loci has been mutated and then changed by
\* a crossover
C7_Witness ==
  /\ cFirst.kind = "RemovalIndex"
  /\ Len(cMap) >= 3
  /\ cMutated
  /\ cRepeat = 1
  /\ ~cAborted
  /\ cFirst # cSnapFirst

-----------------------------------------------------------------------------
(* Claims checked under SpecBrute *)

RECURSIVE Factorial(_)
Factorial(n) == IF n <= 1 THEN 1 ELSE n * Factorial(n - 1)

\* the permutations of 0..n-1, as sequences
PermutationsOf(n) ==
  {p \in [1..n -> 0..(n - 1)] : \A i, j \in 1..n : p[i] = p[j] => i = j}

\* C10: on a map of n >= 1 cities brute_force never panics, its loop scores
\* the identity and then one new permutation per counter increment, it ends
\* after n! - 1 increments with all n! permutations scored, and it returns a
\* permutation with its path length, which no permutation undercuts.
C10_BruteForceOptimal ==
  Len(bMap) >= 1 =>
    /\ bPc # "abort"
    /\ bFresh
    /\ bPc \in {"loop", "done"} =>
         /\ bVisited \subseteq PermutationsOf(Len(bMap))
         /\ Cardinality(bVisited) = counter + 1
         /\ counter <= Factorial(Len(bMap)) - 1
    /\ bPc = "done" =>
         /\ counter = Factorial(Len(bMap)) - 1
         /\ bVisited = PermutationsOf(Len(bMap))
         /\ solution \in PermutationsOf(Len(bMap))
         /\ shortest_dist = IndexPathEvaluate(solution, bMap)
         /\ \A p \in PermutationsOf(Len(bMap)) :
              shortest_dist <= IndexPathEvaluate(p, bMap)

\* brute_force has returned on the largest map with a permutation other than
\* the identity it started from
C10_Witness ==
  /\ bPc = "done"
  /\ Len(bMap) = MaxBruteCities
  /\ solution # [i \in 1..Len(bMap) |-> i - 1]
  /\ shortest_dist < IndexPathEvaluate([i \in 1..Len(bMap) |-> i - 1], bMap)

-----------------------------------------------------------------------------
(* Claims checked under SpecRec *)

\* C9: recombine of either strategy on genomes of different lengths panics
\* before any crossover call and before any random draw, leaving both genomes
\* as they were; KPoint::new(0) and Uniform::weighted(w) with w <= 0 or
\* w > 0.5 panic instead of returning a strategy.
C9_ContractViolationsAbort ==
  /\ (rPc \in {"done", "abort_recombine"} /\ len(rFirst0) # len(rSecond0)) =>
       /\ rPc = "abort_recombine"
       /\ rCalls = <<>>
       /\ rDraws = 0
       /\ rFirst = rFirst0
       /\ rSecond = rSecond0
  /\ (rCtor.name = "KPoint::new" /\ rCtor.arg = 0) => rPc = "abort_new"
  /\ (rCtor.name = "Uniform::weighted"
        /\ (rCtor.arg <= 0 \/ 2 * rCtor.arg > RandDen)) => rPc = "abort_new"

\* recombine of a KPoint strategy has panicked on genomes of lengths 3 and 2
C9_Witness ==
  /\ rPc = "abort_recombine"
  /\ recombinator.kind = "KPoint"
  /\ len(rFirst0) > len(rSecond0)
  /\ len(rSecond0) > 0

-----------------------------------------------------------------------------
(* Claims checked under SpecFix *)

\* the decoded order of a key vector is window-locally optimal: for no four
\* consecutive decoded positions p0, p1, p2, p3 is d(p0,p2) + d(p1,p3)
\* strictly smaller than d(p0,p1) + d(p2,p3)
WindowLocallyOptimal(key, m) ==
  LET pts == DecodedPoints(Genome("RandomKeyPath", key, 0), m)
  IN \A j \in 1..(Len(pts) - 3) :
       ~(dist(pts[j], pts[j + 2]) + dist(pts[j + 1], pts[j + 3])
           < dist(pts[j], pts[j + 1]) + dist(pts[j + 2], pts[j + 3]))

\* the loss of a key vector: RandomKeyPath::evaluate
KeyLoss(key, m) == evaluate(Genome("RandomKeyPath", key, 0), m).value

\* C8 as claimed: fix leaves evaluate as it was whenever the decoded order was
\* window-locally optimal.
C8_FixKeepsLossOnLocalOptimum ==
  (fPc = "fixed" /\ WindowLocallyOptimal(fKey0, fMap)) =>
    KeyLoss(fKey, fMap) = KeyLoss(fKey0, fMap)

\* neither boundary check of fix fires on the decoded order of the key vector
BoundaryChecksQuiet(key, m) ==
  Len(key) >= 3 =>
    /\ ~FixStartFires(as_index_path(key), m)
    /\ ~FixEndFires(as_index_path(key), m)

\* C8 as amended: when the decoded order is window-locally optimal and,
\* besides, neither the start check (d2(p0,p2) < d2(p1,p2)) nor, for more than
\* five cities, the end check fires, fix changes no key, and evaluate is as it
\* was.
C8_FixKeepsQuietLocalOptimum ==
  (fPc = "fixed" /\ WindowLocallyOptimal(fKey0, fMap)
     /\ BoundaryChecksQuiet(fKey0, fMap)) =>
    /\ fKey = fKey0
    /\ KeyLoss(fKey, fMap) = KeyLoss(fKey0, fMap)

\* fix has run on a window-locally optimal genome of more than five cities
\* with neither boundary check firing, whose decoded order is not the map's
\* order
C8_Witness ==
  /\ fPc = "fixed"
  /\ Len(fKey0) > 5
  /\ WindowLocallyOptimal(fKey0, fMap)
  /\ BoundaryChecksQuiet(fKey0, fMap)
  /\ as_index_path(fKey0) # [i \in 1..Len(fKey0) |-> i - 1]
  /\ KeyLoss(fKey0, fMap) > 0

-----------------------------------------------------------------------------
(* evolve: the population length, elitism and the returned minimum *)

\* the losses of the genomes of a population
LossesOf(pop) == {Loss(pop[i]) : i \in 1..Len(pop)}

\* the least element of a non-empty set of numbers
SetMin(S) == CHOOSE x \in S : \A y \in S : x <= y

\* the genomes of a population have pairwise distinct losses
DistinctLosses(pop) ==
  \A i, j \in 1..Len(pop) : i # j => Loss(pop[i]) # Loss(pop[j])

\* C1: for every population of size n >= 1, all ratios in [0, 1] and all
\* draws, evolve completes without aborting, and the population is as long
\* after the call as it was before it.
C1_EvolveKeepsLength ==
  /\ ePc # "abort"
  /\ ePc = "returned" => Len(population) = Len(ePop0)

\* C2: when evolve is called with an elitist ratio > 0 on a population of
\* pairwise distinct losses, the smallest pre-generation loss is the loss of
\* a member of the population when evolve returns.
C2_ElitismKeepsBest ==
  (ePc = "returned" /\ eElitist /\ DistinctLosses(ePop0))
    => SetMin(LossesOf(ePop0)) \in LossesOf(population)

\* C3 as stated: the value evolve returns is the minimum of evaluate over
\* exactly the genomes in the population when evolve returns.
C3_ReturnIsFinalPopulationMin ==
  ePc = "returned" => eReturn = SetMin(LossesOf(population))

\* C3, amended: the value evolve returns is the minimum of evaluate over the
\* population evolve was called with and over every clone evaluated in the
\* offspring loop (both clones of every round, pushed or not, trimmed or not);
\* it is therefore at most the minimum over the population at return.
C3_ReturnIsMinOverEvaluated ==
  ePc = "returned" =>
    /\ eReturn = SetMin(LossesOf(ePop0) \cup eCloneLosses)
    /\ eReturn <= SetMin(LossesOf(population))

\* evolve returned a value strictly below every loss in the population it
\* left behind, after a round that evaluated a clone it did not push
C3_Witness ==
  /\ ePc = "returned"
  /\ Len(eOffspring) = 1
  /\ eCloneLosses # {}
  /\ eReturn < SetMin(LossesOf(population))

-----------------------------------------------------------------------------
(* evolve: the two parents *)

\* C11: in every round of the offspring loop on a population of n >= 2
\* genomes, the two parent indices of the weighted draw are different.
C11_ParentsDistinct ==
  (ePc = "recombine" /\ popSize >= 2) => selections[1] # selections[2]

-----------------------------------------------------------------------------
(* evolve: what the trim keeps *)

\* how often genome g occurs in a population
Occurrences(pop, g) == Cardinality({i \in 1..Len(pop) : pop[i] = g})

\* pop is in ascending order of loss
AscendingByLoss(pop) ==
  \A i \in 1..(Len(pop) - 1) : Loss(pop[i]) <= Loss(pop[i + 1])

-----------------------------------------------------------------------------
(* RemovalIndex: the domains of new and of point_mutation *)

\* the values RemovalIndex::new can place at locus i of a genome for map m
NewValues(m, i) == {At(g.data, i) : g \in RemovalIndexNew(m)}

\* C13: RemovalIndex::new and point_mutation(i) draw locus i from the same
\* domain [0, mapSize - 1 - i): a genome fresh from new has
\* path[i] < mapSize - 1 - i at every locus, and the values point_mutation
\* can place at locus i are those new can place there.
C13_SameShrinkingDomain ==
  (cFirst.kind = "RemovalIndex" /\ Len(cMap) >= 2) =>
    \A i \in 0..(len(cFirst) - 1) :
      /\ (cRepeat = 0 /\ ~cMutated) => At(cFirst.data, i) < Len(cMap) - 1 - i
      /\ MutationValues(cFirst, i) = NewValues(cMap, i)

-----------------------------------------------------------------------------
(* recombine: the crossover calls it issues *)

\* the crossover calls <<start, end>> of the last recombine are in range
CallsInRange ==
  \A c \in 1..Len(rCalls) :
    0 <= rCalls[c][1] /\ rCalls[c][1] <= rCalls[c][2]
                      /\ rCalls[c][2] <= len(rFirst0)

\* the start bounds of the calls never decrease
StartsNonDecreasing ==
  \A c \in 1..(Len(rCalls) - 1) : rCalls[c][1] <= rCalls[c + 1][1]

\* no locus lies in the range of two calls
CallsDisjoint ==
  \A a, b \in 1..Len(rCalls) :
    a < b => (rCalls[a][2] <= rCalls[b][1] \/ rCalls[b][2] <= rCalls[a][1])

\* every locus of the pair holds its two original values, exchanged or not
LociKeptOrExchanged ==
  /\ len(rFirst) = len(rFirst0)
  /\ len(rSecond) = len(rSecond0)
  /\ \A i \in 1..len(rFirst0) :
       \/ rFirst.data[i] = rFirst0.data[i] /\ rSecond.data[i] = rSecond0.data[i]
       \/ rFirst.data[i] = rSecond0.data[i] /\ rSecond.data[i] = rFirst0.data[i]

\* C14: on two genomes of equal length, for a count >= 1 or a weight in
\* (0, 0.5] and any draws, recombine does not abort and every crossover call
\* has 0 <= start <= end <= len; KPoint::new(k) issues max(1, k - 1) calls
\* with non-decreasing starts (for k = 1 the call [cut, len), cut < len when
\* len > 0), Uniform issues calls on pairwise disjoint ranges, and each locus
\* ends with its original values or with the two exchanged.
C14_RecombineRangesValid ==
  (rPc \in {"done", "abort_recombine"} /\ len(rFirst0) = len(rSecond0)) =>
    /\ rPc = "done"
    /\ CallsInRange
    /\ LociKeptOrExchanged
    /\ recombinator.kind = "KPoint" =>
         /\ Len(rCalls) = Max2(1, rCtor.arg - 1)
         /\ StartsNonDecreasing
         /\ rCtor.arg = 1 =>
              /\ rCalls[1][2] = len(rFirst0)
              /\ len(rFirst0) > 0 => rCalls[1][1] < len(rFirst0)
    /\ recombinator.kind = "Uniform" => CallsDisjoint

\* KPoint::new(3) has recombined two genomes of three loci with two calls,
\* the second of which exchanged at least one locus
C14_Witness ==
  /\ rPc = "done"
  /\ rCtor = [name |-> "KPoint::new", arg |-> 3]
  /\ len(rFirst0) = 3
  /\ len(rSecond0) = 3
  /\ Len(rCalls) = 2
  /\ rCalls[2][1] < rCalls[2][2]
  /\ rFirst # rFirst0

-----------------------------------------------------------------------------
(* fix: range safety, key multiset and loss *)

\* how often the key value v occurs in a key vector
KeyCount(key, v) == Cardinality({i \in 1..Len(key) : key[i] = v})

\* fix only moved key values between loci
SameKeyMultiset ==
  /\ Len(fKey) = Len(fKey0)
  /\ \A v \in 0..(MaxFixKey - 1) : KeyCount(fKey, v) = KeyCount(fKey0, v)

\* C15: for every map and every key vector fix completes, is a no-op below
\* 3 cities, leaves the multiset of key values as it was, and never
\* increases evaluate.
C15_FixNeverIncreasesLoss ==
  fPc = "fixed" =>
    /\ Len(fKey0) < 3 => fKey = fKey0
    /\ SameKeyMultiset
    /\ KeyLoss(fKey, fMap) <= KeyLoss(fKey0, fMap)

====
